---- MODULE Spec2Model ----
(***************************************************************************)
(* Model of the single-page site in src/app.js: ThemeManager, Router,      *)
(* FilterManager and the catalog loader loadUtilitiesData.                 *)
(*                                                                         *)
(* JavaScript strings that the code inspects character by character (tool  *)
(* names, descriptions, the search text) are sequences of one-character    *)
(* strings; strings that are only compared for equality (route names,      *)
(* tags, theme names) are TLA+ strings.  JavaScript null / undefined is    *)
(* the string "null".                                                      *)
(***************************************************************************)
EXTENDS Integers, Sequences, FiniteSets, TLC

\* ------------------------------------------------------------------ bounds
\* number of entries the session history may hold in the model
MaxHistory == 3
\* number of catalog fetches that may be issued in the model
MaxFetch == 2

\* ------------------------------------------------------- input alphabets
NULL == "null"

\* the keys of Router.routes
Routes == {"home", "projects", "profiles", "tools"}

\* names that an object literal inherits from Object.prototype (one
\* representative; routes[name] is a function for each of them)
InheritedNames == {"constructor"}

\* URL fragments the page may be opened with (without the leading '#')
Fragments == {"", "projects", "tools", "constructor", "bogus"}

\* arguments of navigateTo: the data-page values of the links and the names
\* a caller of window.router.navigateTo may pass
PageNames == Routes \cup {"constructor", "bogus"}

\* values localStorage may hold under "theme" when the page is opened
SavedThemes == {NULL, "", "light", "dark", "blue"}

\* arguments of setTheme
ThemeArgs == {"light", "dark", "blue"}

\* arguments of toggleTag ("zzz" is a tag no tool carries)
TagArgs == {"vpn", "chat", "zzz"}

\* arguments of addTag ("" is the dropdown's default option)
AddTagArgs == TagArgs \cup {""}

\* raw texts typed into the search input
SearchInputs == {<<>>, <<" ", "A">>, <<"b">>}

\* ways one fetch of utilities.json can end
FetchOutcomes == {"ok", "transport", "http", "parse", "shape"}

\* raw records of utilities.json
\* (a URL is a sequence of its parts; an absent url_git is the empty sequence)
RawA == [name |-> <<"A", "b">>, tags |-> <<"vpn", "chat">>,
         description |-> <<"x">>, url_git |-> <<"https://", "github.com", "/a">>]
RawB == [name |-> <<"B">>, tags |-> <<"chat">>,
         description |-> <<"a", " ", "c">>, url_git |-> <<"https://", "gitlab", ".com/b">>]
RawC == [name |-> <<"a">>, tags |-> <<"vpn", "os">>,
         description |-> <<>>, url_git |-> <<>>]

\* documents the server may hold as utilities.json
Catalogs == {<<RawA, RawB, RawC>>, <<RawB, RawA>>}

\* a record whose repository is on neither github.com nor a gitlab host
RawD == [name |-> <<"c">>, tags |-> <<"os">>,
         description |-> <<>>, url_git |-> <<"https://", "codeberg.org", "/d">>]

\* a document with a repository link of each kind and a record without one
IconCatalog == <<RawA, RawB, RawC, RawD>>

\* the tags getCategoryFromTags tests for, and one it does not
RuleTags == {"vpn", "messaging", "chat", "password-manager", "email", "storage",
             "cloud", "browser", "os", "search-engine", "adblock",
             "tracker-blocker", "email-alias", "zzz"}

\* one-record documents whose record carries every list of at most two tags
CategoryCatalogs ==
  {<<[name |-> <<"A">>, tags |-> tags, description |-> <<>>, url_git |-> <<>>]>> :
     tags \in {<<>>} \cup {<<t>> : t \in RuleTags}
               \cup {<<t, u>> : t \in RuleTags, u \in RuleTags}}

\* ------------------------------------------------------ string functions
\* String.prototype.toLowerCase on one character
LowerChar(c) == CASE c = "A" -> "a" [] c = "B" -> "b" [] c = "C" -> "c" [] OTHER -> c

toLowerCase(s) == [i \in 1..Len(s) |-> LowerChar(s[i])]

RECURSIVE trimStart(_)
trimStart(s) == IF s # <<>> /\ Head(s) = " " THEN trimStart(Tail(s)) ELSE s

RECURSIVE trimEnd(_)
trimEnd(s) == IF s # <<>> /\ s[Len(s)] = " " THEN trimEnd(SubSeq(s, 1, Len(s) - 1)) ELSE s

trim(s) == trimEnd(trimStart(s))

\* String.prototype.includes
includes(s, sub) == \E i \in 0..(Len(s) - Len(sub)) : SubSeq(s, i + 1, i + Len(sub)) = sub

\* Array.prototype.includes
arrayIncludes(arr, x) == \E i \in 1..Len(arr) : arr[i] = x

\* JavaScript truthiness of a string-or-null value
Truthy(v) == v # NULL /\ v # ""

\* the retry limit of attemptSetup: it retries while attempts < 5
MaxRetries == 5

\* the two calls of ThemeManager.setupToggle: from init() and from
\* reinitialize()
SetupCalls == {"init", "reinit"}

\* ------------------------------------------------------- pure functions
\* getCategoryFromTags with the email-alias test placed before the email test
\* and the chat test before the vpn test
getCategoryFromTags_Reordered(tags) ==
  IF arrayIncludes(tags, "messaging") \/ arrayIncludes(tags, "chat") THEN "Communication"
  ELSE IF arrayIncludes(tags, "vpn") THEN "VPN & Networking"
  ELSE IF arrayIncludes(tags, "password-manager") THEN "Password Management"
  ELSE IF arrayIncludes(tags, "email-alias") THEN "Email Privacy"
  ELSE IF arrayIncludes(tags, "email") THEN "Email"
  ELSE IF arrayIncludes(tags, "storage") \/ arrayIncludes(tags, "cloud") THEN "Storage & Sync"
  ELSE IF arrayIncludes(tags, "browser") THEN "Browsers"
  ELSE IF arrayIncludes(tags, "os") THEN "Operating Systems"
  ELSE IF arrayIncludes(tags, "search-engine") THEN "Search"
  ELSE IF arrayIncludes(tags, "adblock") \/ arrayIncludes(tags, "tracker-blocker") THEN "Browser Extensions"
  ELSE "Privacy & Security"

getCategoryFromTags(tags) ==
  IF arrayIncludes(tags, "vpn") THEN "VPN & Networking"
  ELSE IF arrayIncludes(tags, "messaging") \/ arrayIncludes(tags, "chat") THEN "Communication"
  ELSE IF arrayIncludes(tags, "password-manager") THEN "Password Management"
  ELSE IF arrayIncludes(tags, "email") THEN "Email"
  ELSE IF arrayIncludes(tags, "storage") \/ arrayIncludes(tags, "cloud") THEN "Storage & Sync"
  ELSE IF arrayIncludes(tags, "browser") THEN "Browsers"
  ELSE IF arrayIncludes(tags, "os") THEN "Operating Systems"
  ELSE IF arrayIncludes(tags, "search-engine") THEN "Search"
  ELSE IF arrayIncludes(tags, "adblock") \/ arrayIncludes(tags, "tracker-blocker") THEN "Browser Extensions"
  ELSE IF arrayIncludes(tags, "email-alias") THEN "Email Privacy"
  ELSE "Privacy & Security"

\* the tags of the model in the order Array.prototype.sort puts them
SortedTagUniverse ==
  <<"adblock", "browser", "chat", "cloud", "email", "email-alias", "messaging",
    "os", "password-manager", "search-engine", "storage", "tracker-blocker",
    "vpn", "zzz">>

\* FilterManager.extractAllTags applied to the catalog `data`
extractAllTags(data) ==
  LET tags == UNION {{data[i].tags[j] : j \in 1..Len(data[i].tags)} : i \in 1..Len(data)}
      InTags(t) == t \in tags
  IN SelectSeq(SortedTagUniverse, InTags)

\* the list FilterManager.updateFilteredTools computes from the catalog
\* `data`, the selected tags `sel` and the search text `q`
updateFilteredToolsResult(data, sel, q) ==
  LET HasAllTags(tool) == \A t \in sel : arrayIncludes(tool.tags, t)
      byTags == IF Cardinality(sel) > 0 THEN SelectSeq(data, HasAllTags) ELSE data
      Matches(tool) == \/ includes(toLowerCase(tool.name), q)
                       \/ includes(toLowerCase(tool.description), q)
  IN IF q # <<>> THEN SelectSeq(byTags, Matches) ELSE byTags

\* FilterManager.getGitIcon, with the value of the root data-theme attribute
getGitIcon(gitUrl, attr) ==
  LET currentTheme == IF Truthy(attr) THEN attr ELSE "light"
      isDark == currentTheme = "dark"
  IN IF includes(gitUrl, <<"github.com">>)
     THEN (IF isDark THEN "github-white.png" ELSE "github.png")
     ELSE IF includes(gitUrl, <<"gitlab">>)
     THEN (IF isDark THEN "gitlab-white.png" ELSE "gitlab.png")
     ELSE "git.png"

\* the src of the .git-icon images of the cards `cards`, in document order
\* (FilterManager.renderTools emits one only for a truthy url_git)
GitIconsOf(cards, attr) ==
  LET HasGit(tool) == tool.url_git # <<>>
      withGit == SelectSeq(cards, HasGit)
  IN [i \in 1..Len(withGit) |-> getGitIcon(withGit[i].url_git, attr)]

\* getInitialTheme with the precedence reversed: the system preference first
getInitialTheme_SystemFirst(savedTheme, sysDark) ==
  IF sysDark THEN "dark" ELSE IF Truthy(savedTheme) THEN savedTheme ELSE "light"

\* ThemeManager.getInitialTheme, with localStorage.getItem('theme') and the
\* media query's matches
getInitialTheme(savedTheme, sysDark) ==
  IF Truthy(savedTheme) THEN savedTheme ELSE IF sysDark THEN "dark" ELSE "light"

\* Router.routes[page]: the render function, an inherited member of
\* Object.prototype, or undefined
routesLookup(page) ==
  IF page \in Routes THEN page
  ELSE IF page \in InheritedNames THEN "inherited"
  ELSE NULL

\* the data-page values of the .nav-link elements
NavLinkPages == Routes

\* ------------------------------------------------------------------ state
VARIABLES
  pc,            \* "boot" before DOMContentLoaded has been handled, then "run"
  storedTheme,   \* localStorage item "theme" (NULL when absent)
  systemDark,    \* matches of the (prefers-color-scheme: dark) media query
  theme,         \* ThemeManager.theme
  dataTheme,     \* data-theme attribute of the root element
  savedAtStart,  \* the stored theme found when the page was opened
  userChose,     \* the user has clicked the toggle or called setTheme
  currentPage,   \* Router.currentPage
  hist,          \* session history: the fragments of its entries
  histIdx,       \* index of the current session history entry
  activeNav,     \* data-page of the .nav-link carrying class active
  pageContent,   \* the page whose markup is in #page-content
  serverData,    \* the document served as utilities.json
  toolsFilter,   \* window.toolsFilter has been constructed
  isLoaded,      \* FilterManager.isLoaded
  TOOLS_DATA,    \* the global catalog
  allTags,       \* FilterManager.allTags
  filteredTools, \* FilterManager.filteredTools
  selectedTags,  \* FilterManager.selectedTags
  searchQuery,   \* FilterManager.searchQuery
  pending,       \* fetches in flight, each with a suspended renderTools
  fetchCount,    \* fetches issued since the page was opened
  domGrid,       \* the tool cards inside .tools-grid
  domCount,      \* <<X, Y>> of the .item-count text "Showing X of Y items"
  domIcons,      \* src of the .git-icon images
  domClearBtn,   \* the .clear-filters-btn button is in the filter UI
  domOptions,    \* the tag options of #tag-dropdown, in document order
  domChips,      \* the tags shown as .active-filter-tag chips
  domDropdown,   \* value of #tag-dropdown ("" also when the page has none)
  toggleEl,      \* #theme-toggle (with its .theme-icon) is in the document
  toggleGlyph,   \* text of .theme-icon, NULL while the script has not set it
  listeners,     \* ThemeManager's click listeners attached to #theme-toggle
  handleToggleClick, \* ThemeManager.handleToggleClick: 0 undefined, else the
                 \* number of the closure it holds
  timers,        \* pending setTimeout callbacks of attemptSetup
  lookups,       \* getElementById('theme-toggle') calls of each setupToggle call
  reinitPending, \* the 500ms timer of themeManager.reinitialize is pending
  lastOp         \* the handler that ran last and its argument

themeVars == <<storedTheme, systemDark, theme, dataTheme, savedAtStart, userChose>>
routerVars == <<currentPage, hist, histIdx, activeNav>>
filterVars == <<toolsFilter, isLoaded, TOOLS_DATA, allTags, filteredTools, selectedTags, searchQuery>>
fetchVars == <<pending, fetchCount>>
filterUI == <<domClearBtn, domOptions, domChips>>
gridVars == <<pageContent, domGrid, domCount, domIcons, filterUI>>
domVars == <<gridVars, domDropdown>>
setupVars == <<toggleEl, listeners, handleToggleClick, timers, lookups, reinitPending>>
toggleVars == <<setupVars, toggleGlyph>>
vars == <<pc, themeVars, routerVars, filterVars, fetchVars, domVars, toggleVars,
          serverData, lastOp>>

\* window.location.hash without the leading '#'
hash == hist[histIdx]

Op(name, arg) == [op |-> name, arg |-> arg]

\* the page as the browser hands it to the script: storage, system preference,
\* URL fragment and served document are the environment's choice
Init ==
  /\ pc = "boot"
  /\ storedTheme \in SavedThemes
  /\ systemDark \in BOOLEAN
  /\ theme = NULL
  /\ dataTheme = NULL
  /\ savedAtStart = NULL
  /\ userChose = FALSE
  /\ currentPage = "home"
  /\ hist \in {<<f>> : f \in Fragments}
  /\ histIdx = 1
  /\ activeNav = NULL
  /\ pageContent = NULL
  /\ serverData \in Catalogs \cup CategoryCatalogs \cup {IconCatalog}
  /\ toolsFilter = FALSE
  /\ isLoaded = FALSE
  /\ TOOLS_DATA = <<>>
  /\ allTags = <<>>
  /\ filteredTools = <<>>
  /\ selectedTags = {}
  /\ searchQuery = <<>>
  /\ pending = 0
  /\ fetchCount = 0
  /\ domGrid = <<>>
  /\ domCount = <<>>
  /\ domIcons = <<>>
  /\ domClearBtn = FALSE
  /\ domOptions = <<>>
  /\ domChips = {}
  /\ domDropdown = ""
  /\ toggleEl \in BOOLEAN
  /\ toggleGlyph = NULL
  /\ listeners = {}
  /\ handleToggleClick = 0
  /\ timers = {}
  /\ lookups = [c \in SetupCalls |-> 0]
  /\ reinitPending = FALSE
  /\ lastOp = Op("none", "")

filterData == <<isLoaded, TOOLS_DATA, allTags, filteredTools, selectedTags, searchQuery>>

\* --------------------------------------------------------- ThemeManager
\* ThemeManager.updateToggleIcon() when this.theme is t
updateToggleIcon(t) ==
  toggleGlyph' = IF toggleEl THEN (IF t = "dark" THEN "sun" ELSE "moon") ELSE toggleGlyph

\* applyTheme updating the toggle icon before it assigns this.theme
applyTheme_IconBeforeAssign(t) ==
  /\ theme' = t
  /\ dataTheme' = t
  /\ storedTheme' = t
  /\ updateToggleIcon(theme)

\* ThemeManager.applyTheme(t): the fields, the attribute and the stored item
applyTheme(t) ==
  /\ theme' = t
  /\ dataTheme' = t
  /\ storedTheme' = t
  /\ updateToggleIcon(t)

\* attemptSetup without the removeEventListener call
attemptSetup_NoRemove(call, attempts) ==
  /\ lookups' = [lookups EXCEPT ![call] = @ + 1]
  /\ IF toggleEl
     THEN /\ listeners' = listeners \cup {handleToggleClick + 1}
          /\ handleToggleClick' = handleToggleClick + 1
          /\ timers' = timers \ {[call |-> call, attempts |-> attempts]}
     ELSE /\ timers' = IF attempts < MaxRetries
                       THEN (timers \ {[call |-> call, attempts |-> attempts]})
                              \cup {[call |-> call, attempts |-> attempts + 1]}
                       ELSE timers \ {[call |-> call, attempts |-> attempts]}
          /\ UNCHANGED <<listeners, handleToggleClick>>

\* attemptSetup(attempts) of the setupToggle call `call`
attemptSetup(call, attempts) ==
  /\ lookups' = [lookups EXCEPT ![call] = @ + 1]
  /\ IF toggleEl
     THEN /\ listeners' = (listeners \ {handleToggleClick}) \cup {handleToggleClick + 1}
          /\ handleToggleClick' = handleToggleClick + 1
          /\ timers' = timers \ {[call |-> call, attempts |-> attempts]}
     ELSE /\ timers' = IF attempts < MaxRetries
                       THEN (timers \ {[call |-> call, attempts |-> attempts]})
                              \cup {[call |-> call, attempts |-> attempts + 1]}
                       ELSE timers \ {[call |-> call, attempts |-> attempts]}
          /\ UNCHANGED <<listeners, handleToggleClick>>

\* applyTheme without its call of window.toolsFilter.updateGitIcons()
updateGitIcons_Skipped(attr) ==
  domIcons' = domIcons

\* FilterManager.updateGitIcons, called by applyTheme when window.toolsFilter
\* exists, under the data-theme attribute `attr`
updateGitIcons(attr) ==
  domIcons' = IF toolsFilter THEN GitIconsOf(domGrid, attr) ELSE domIcons

\* ------------------------------------------------------------ rendering
\* the parts of the markup of FilterManager.renderFilterUI that depend on the
\* filter state, with `tags` the value of allTags
renderFilterUI(tags) ==
  LET Available(tag) == tag \notin selectedTags
  IN /\ domClearBtn' = (Cardinality(selectedTags) > 0 \/ searchQuery # <<>>)
     /\ domOptions' = SelectSeq(tags, Available)
     /\ domChips' = selectedTags
     /\ domDropdown' = ""

\* #page-content receives the markup Router.renderTools returns: the filter
\* UI and the cards of `ft`, with `n` the catalog size
ShowTools(ft, n, attr, tags) ==
  /\ pageContent' = "tools"
  /\ domGrid' = ft
  /\ domCount' = <<Len(ft), n>>
  /\ domIcons' = GitIconsOf(ft, attr)
  /\ renderFilterUI(tags)

\* #page-content receives markup without a tools grid
ShowStatic(content) ==
  /\ pageContent' = content
  /\ domGrid' = <<>>
  /\ domCount' = <<>>
  /\ domIcons' = <<>>
  /\ domClearBtn' = FALSE
  /\ domOptions' = <<>>
  /\ domChips' = {}
  /\ domDropdown' = ""

\* Router.renderPage(page), for a page with a truthy routes[page]; the tools
\* page is injected at once when the catalog is loaded, and otherwise
\* FilterManager.initialize issues a fetch and the render is suspended
renderPage(page, attr) ==
  IF page = "tools"
  THEN /\ toolsFilter' = TRUE
       /\ IF isLoaded
          THEN /\ ShowTools(filteredTools, Len(TOOLS_DATA), attr, allTags)
               /\ UNCHANGED fetchVars
          ELSE /\ pending' = pending + 1
               /\ fetchCount' = fetchCount + 1
               /\ UNCHANGED domVars
  ELSE /\ toolsFilter' = toolsFilter
       /\ UNCHANGED fetchVars
       /\ ShowStatic(IF page \in Routes THEN page ELSE "[object Object]")

\* Router.updateActiveNav(page): the link that ends up active
updateActiveNav(page) == IF page \in NavLinkPages THEN page ELSE NULL

\* navigateTo skipping history.pushState when the target is the current page
navigateTo_NoPushWhenCurrent(page, h, i, attr) ==
  IF Truthy(routesLookup(page))
  THEN /\ currentPage' = page
       /\ hist' = IF page = currentPage /\ h[i] = page THEN h ELSE Append(SubSeq(h, 1, i), page)
       /\ histIdx' = IF page = currentPage /\ h[i] = page THEN i ELSE i + 1
       /\ activeNav' = updateActiveNav(page)
       /\ renderPage(page, attr)
  ELSE /\ currentPage' = currentPage
       /\ hist' = h
       /\ histIdx' = i
       /\ activeNav' = activeNav
       /\ toolsFilter' = toolsFilter
       /\ UNCHANGED <<fetchVars, domVars>>

\* Router.navigateTo(page), called when the session history is h with
\* current entry i
navigateTo(page, h, i, attr) ==
  IF Truthy(routesLookup(page))
  THEN /\ currentPage' = page
       /\ hist' = Append(SubSeq(h, 1, i), page)
       /\ histIdx' = i + 1
       /\ activeNav' = updateActiveNav(page)
       /\ renderPage(page, attr)
  ELSE /\ currentPage' = currentPage
       /\ hist' = h
       /\ histIdx' = i
       /\ activeNav' = activeNav
       /\ toolsFilter' = toolsFilter
       /\ UNCHANGED <<fetchVars, domVars>>

\* handleRoute resolving every fragment through navigateTo
handleRoute_ViaNavigateTo(h, i, attr) ==
  LET page == IF h[i] # "" THEN h[i] ELSE "home"
  IN IF Truthy(routesLookup(page))
     THEN navigateTo(page, h, i, attr)
     ELSE navigateTo("home", h, i, attr)

\* Router.handleRoute(), called when the session history is h with current
\* entry i
handleRoute(h, i, attr) ==
  LET page == IF h[i] # "" THEN h[i] ELSE "home"
  IN IF Truthy(routesLookup(page))
     THEN /\ currentPage' = page
          /\ hist' = h
          /\ histIdx' = i
          /\ activeNav' = updateActiveNav(page)
          /\ renderPage(page, attr)
     ELSE navigateTo("home", h, i, attr)

\* the model's bound on fetches leaves room for rendering `page`
FetchRoom(page) == (page = "tools" /\ ~isLoaded) => fetchCount < MaxFetch

\* -------------------------------------------------------------- actions
\* the DOMContentLoaded handler: new ThemeManager(), then new Router()
DOMContentLoaded ==
  /\ pc = "boot"
  /\ pc' = "run"
  /\ LET initial == getInitialTheme(storedTheme, systemDark)
     IN /\ applyTheme(initial)
        /\ handleRoute(hist, histIdx, initial)
  /\ attemptSetup("init", 0)
  /\ reinitPending' = TRUE
  /\ savedAtStart' = storedTheme
  /\ UNCHANGED <<systemDark, userChose, filterData, serverData, toggleEl>>
  /\ lastOp' = Op("DOMContentLoaded", hash)

\* a click on a [data-page] link, or a call of window.router.navigateTo
NavigateTo(page) ==
  /\ pc = "run"
  /\ histIdx < MaxHistory
  /\ FetchRoom(page)
  /\ navigateTo(page, hist, histIdx, dataTheme)
  /\ UNCHANGED <<pc, themeVars, toggleVars, filterData, serverData>>
  /\ lastOp' = Op("navigateTo", page)

\* the popstate listener, after the browser went back (d = -1) or forward
\* (d = 1) in the session history
PopState(d) ==
  /\ pc = "run"
  /\ histIdx + d \in 1..Len(hist)
  /\ LET i == histIdx + d
         page == IF hist[i] # "" THEN hist[i] ELSE "home"
     IN /\ FetchRoom(page)
        /\ Truthy(routesLookup(page)) \/ i < MaxHistory
        /\ handleRoute(hist, i, dataTheme)
        /\ lastOp' = Op("popstate", hist[i])
  /\ UNCHANGED <<pc, themeVars, toggleVars, filterData, serverData>>

\* loadUtilitiesData whose catch block leaves the global catalog as it is
loadUtilitiesData_NoFallback(outcome, body) ==
  IF outcome = "ok"
  THEN [i \in 1..Len(body) |->
          [id |-> i,
           name |-> body[i].name,
           category |-> getCategoryFromTags(body[i].tags),
           tags |-> body[i].tags,
           description |-> body[i].description,
           url_git |-> body[i].url_git]]
  ELSE TOOLS_DATA

\* the value loadUtilitiesData assigns to TOOLS_DATA and resolves to, for a
\* fetch that ends with `outcome` and, when it succeeds, delivers `body`; a
\* rejected fetch ("transport"), a non-OK status ("http"), a body that is not
\* JSON ("parse") and a body whose map() or getCategoryFromTags() throws
\* ("shape") all end in the catch block
loadUtilitiesData(outcome, body) ==
  IF outcome = "ok"
  THEN [i \in 1..Len(body) |->
          [id |-> i,
           name |-> body[i].name,
           category |-> getCategoryFromTags(body[i].tags),
           tags |-> body[i].tags,
           description |-> body[i].description,
           url_git |-> body[i].url_git]]
  ELSE <<>>

\* one fetch of utilities.json ends; loadUtilitiesData resolves, then
\* FilterManager.initialize, Router.renderTools and Router.renderPage resume
FetchComplete(outcome) ==
  /\ pc = "run"
  /\ pending > 0
  /\ LET data == loadUtilitiesData(outcome, serverData)
     IN /\ TOOLS_DATA' = data
        /\ allTags' = extractAllTags(data)
        /\ filteredTools' = data
        /\ ShowTools(data, Len(data), dataTheme, extractAllTags(data))
  /\ isLoaded' = TRUE
  /\ pending' = pending - 1
  /\ UNCHANGED <<pc, themeVars, toggleVars, routerVars, toolsFilter, selectedTags, searchQuery,
                 fetchCount, serverData>>
  /\ lastOp' = Op("fetchComplete", outcome)

\* renderFilteredTools without the update of .item-count
renderFilteredTools_NoCount(ft) ==
  IF pageContent = "tools"
  THEN /\ pageContent' = pageContent
       /\ domGrid' = ft
       /\ domCount' = domCount
       /\ domIcons' = GitIconsOf(ft, dataTheme)
       /\ UNCHANGED filterUI
  ELSE UNCHANGED gridVars

\* FilterManager.renderFilteredTools after filteredTools became ft
renderFilteredTools(ft) ==
  IF pageContent = "tools"
  THEN /\ pageContent' = pageContent
       /\ domGrid' = ft
       /\ domCount' = <<Len(ft), Len(TOOLS_DATA)>>
       /\ domIcons' = GitIconsOf(ft, dataTheme)
       /\ UNCHANGED filterUI
  ELSE UNCHANGED gridVars

\* FilterManager.updateFilteredTools after the filter state became (sel, q)
updateFilteredTools(sel, q) ==
  LET ft == updateFilteredToolsResult(TOOLS_DATA, sel, q)
  IN /\ filteredTools' = ft
     /\ renderFilteredTools(ft)

\* the set FilterManager.toggleTag(tag) leaves in selectedTags
toggleTagResult(sel, tag) == IF tag \in sel THEN sel \ {tag} ELSE sel \cup {tag}

ToggleTag(tag) ==
  /\ pc = "run"
  /\ toolsFilter
  /\ selectedTags' = toggleTagResult(selectedTags, tag)
  /\ updateFilteredTools(selectedTags', searchQuery)
  /\ UNCHANGED <<pc, themeVars, toggleVars, routerVars, fetchVars, serverData,
                 toolsFilter, isLoaded, TOOLS_DATA, allTags, searchQuery, domDropdown>>
  /\ lastOp' = Op("toggleTag", tag)

\* addTag without the reset of #tag-dropdown
AddTag_NoDropdownReset(tag) ==
  /\ pc = "run"
  /\ toolsFilter
  /\ IF Truthy(tag) /\ tag \notin selectedTags
     THEN /\ selectedTags' = selectedTags \cup {tag}
          /\ updateFilteredTools(selectedTags', searchQuery)
          /\ UNCHANGED domDropdown
     ELSE UNCHANGED <<selectedTags, filteredTools, domVars>>
  /\ UNCHANGED <<pc, themeVars, toggleVars, routerVars, fetchVars, serverData,
                 toolsFilter, isLoaded, TOOLS_DATA, allTags, searchQuery>>
  /\ lastOp' = Op("addTag", tag)

\* FilterManager.addTag(tag)
AddTag(tag) ==
  /\ pc = "run"
  /\ toolsFilter
  /\ IF Truthy(tag) /\ tag \notin selectedTags
     THEN /\ selectedTags' = selectedTags \cup {tag}
          /\ updateFilteredTools(selectedTags', searchQuery)
          /\ domDropdown' = ""
     ELSE UNCHANGED <<selectedTags, filteredTools, domVars>>
  /\ UNCHANGED <<pc, themeVars, toggleVars, routerVars, fetchVars, serverData,
                 toolsFilter, isLoaded, TOOLS_DATA, allTags, searchQuery>>
  /\ lastOp' = Op("addTag", tag)

UpdateSearchQuery(query) ==
  /\ pc = "run"
  /\ toolsFilter
  /\ searchQuery' = trim(toLowerCase(query))
  /\ updateFilteredTools(selectedTags, searchQuery')
  /\ UNCHANGED <<pc, themeVars, toggleVars, routerVars, fetchVars, serverData,
                 toolsFilter, isLoaded, TOOLS_DATA, allTags, selectedTags, domDropdown>>
  /\ lastOp' = Op("updateSearchQuery", "")

\* clearAllFilters without the final updateFilteredTools()
ClearAllFilters_NoRecompute ==
  /\ pc = "run"
  /\ toolsFilter
  /\ selectedTags' = {}
  /\ searchQuery' = <<>>
  /\ UNCHANGED <<filteredTools, domVars>>
  /\ UNCHANGED <<pc, themeVars, toggleVars, routerVars, fetchVars, serverData,
                 toolsFilter, isLoaded, TOOLS_DATA, allTags>>
  /\ lastOp' = Op("clearAllFilters", "")

\* FilterManager.clearAllFilters()
ClearAllFilters ==
  /\ pc = "run"
  /\ toolsFilter
  /\ selectedTags' = {}
  /\ searchQuery' = <<>>
  /\ domDropdown' = ""
  /\ updateFilteredTools(selectedTags', searchQuery')
  /\ UNCHANGED <<pc, themeVars, toggleVars, routerVars, fetchVars, serverData,
                 toolsFilter, isLoaded, TOOLS_DATA, allTags>>
  /\ lastOp' = Op("clearAllFilters", "")

\* the user picks the option `value` of #tag-dropdown ("" is its first,
\* default option)
SelectOption(value) ==
  /\ pc = "run"
  /\ pageContent = "tools"
  /\ value = "" \/ arrayIncludes(domOptions, value)
  /\ value # domDropdown
  /\ domDropdown' = value
  /\ UNCHANGED <<pc, themeVars, toggleVars, routerVars, filterVars, fetchVars,
                 serverData, gridVars>>
  /\ lastOp' = Op("selectOption", value)

\* what a theme handler leaves alone
ThemeFrame ==
  UNCHANGED <<pc, savedAtStart, routerVars, filterVars, fetchVars, serverData,
              pageContent, domGrid, domCount, filterUI, domDropdown, setupVars>>

\* a click on #theme-toggle: ThemeManager.toggleTheme
ToggleTheme ==
  /\ pc = "run"
  /\ LET newTheme == IF theme = "dark" THEN "light" ELSE "dark"
     IN /\ applyTheme(newTheme)
        /\ updateGitIcons(newTheme)
  /\ userChose' = TRUE
  /\ UNCHANGED systemDark
  /\ ThemeFrame
  /\ lastOp' = Op("toggleTheme", "")

\* setTheme without its test of the argument
SetTheme_Unvalidated(t) ==
  /\ pc = "run"
  /\ applyTheme(t)
  /\ updateGitIcons(t)
  /\ userChose' = TRUE
  /\ UNCHANGED systemDark
  /\ ThemeFrame
  /\ lastOp' = Op("setTheme", t)

\* ThemeManager.setTheme(t)
SetTheme(t) ==
  /\ pc = "run"
  /\ IF t = "dark" \/ t = "light"
     THEN /\ applyTheme(t)
          /\ updateGitIcons(t)
          /\ userChose' = TRUE
     ELSE UNCHANGED <<theme, dataTheme, storedTheme, domIcons, userChose, toggleGlyph>>
  /\ UNCHANGED systemDark
  /\ ThemeFrame
  /\ lastOp' = Op("setTheme", t)

\* the change listener without its test of the stored item
setupMediaQuery_Unguarded(matches) ==
  /\ applyTheme(IF matches THEN "dark" ELSE "light")
  /\ updateGitIcons(IF matches THEN "dark" ELSE "light")

\* the change listener of the media query, after the system preference
\* became `matches`
setupMediaQuery(matches) ==
  IF ~Truthy(storedTheme)
  THEN /\ applyTheme(IF matches THEN "dark" ELSE "light")
       /\ updateGitIcons(IF matches THEN "dark" ELSE "light")
  ELSE UNCHANGED <<theme, dataTheme, storedTheme, domIcons, toggleGlyph>>

SystemThemeChange(matches) ==
  /\ pc = "run"
  /\ matches # systemDark
  /\ systemDark' = matches
  /\ setupMediaQuery(matches)
  /\ UNCHANGED userChose
  /\ ThemeFrame
  /\ lastOp' = Op("systemThemeChange", IF matches THEN "dark" ELSE "light")

\* the user clears the site's storage (localStorage.removeItem / clear)
ClearStorage ==
  /\ pc = "run"
  /\ storedTheme # NULL
  /\ storedTheme' = NULL
  /\ UNCHANGED <<systemDark, theme, dataTheme, userChose, domIcons, toggleGlyph>>
  /\ ThemeFrame
  /\ lastOp' = Op("clearStorage", "")

\* what a handler of the toggle set-up leaves alone
SetupFrame ==
  UNCHANGED <<pc, themeVars, routerVars, filterVars, fetchVars, domVars, serverData>>

\* a 100ms timer of attemptSetup fires; timers fire in the order of their
\* due times: the timer of attempt k of init() is due at about 100k ms, the
\* reinitialize timer at 500ms, the timers of its chain after that
AttemptSetup(call) ==
  /\ pc = "run"
  /\ \E tm \in timers :
       /\ tm.call = call
       /\ call = "reinit" => ~\E other \in timers : other.call = "init"
       /\ attemptSetup(call, tm.attempts)
  /\ UNCHANGED <<toggleEl, toggleGlyph, reinitPending>>
  /\ SetupFrame
  /\ lastOp' = Op("attemptSetup", call)

\* the 500ms timer of the DOMContentLoaded handler fires:
\* ThemeManager.reinitialize()
Reinitialize ==
  /\ pc = "run"
  /\ reinitPending
  /\ \A tm \in timers : tm.call = "init" => tm.attempts >= MaxRetries
  /\ reinitPending' = FALSE
  /\ attemptSetup("reinit", 0)
  /\ updateToggleIcon(theme)
  /\ UNCHANGED toggleEl
  /\ SetupFrame
  /\ lastOp' = Op("reinitialize", "")

\* the same two timer callbacks, fired in whatever order the browser picks
AttemptSetupAnyOrder(call) ==
  /\ pc = "run"
  /\ \E tm \in timers :
       /\ tm.call = call
       /\ attemptSetup(call, tm.attempts)
  /\ UNCHANGED <<toggleEl, toggleGlyph, reinitPending>>
  /\ SetupFrame
  /\ lastOp' = Op("attemptSetup", call)

ReinitializeAnyOrder ==
  /\ pc = "run"
  /\ reinitPending
  /\ reinitPending' = FALSE
  /\ attemptSetup("reinit", 0)
  /\ updateToggleIcon(theme)
  /\ UNCHANGED toggleEl
  /\ SetupFrame
  /\ lastOp' = Op("reinitialize", "")

\* the document gets its #theme-toggle element after the script has started
MountToggle ==
  /\ pc = "run"
  /\ ~toggleEl
  /\ toggleEl' = TRUE
  /\ UNCHANGED <<listeners, handleToggleClick, timers, lookups, reinitPending, toggleGlyph>>
  /\ SetupFrame
  /\ lastOp' = Op("mountToggle", "")

\* a click on #theme-toggle: every attached listener calls toggleTheme
ToggleClick ==
  /\ pc = "run"
  /\ toggleEl
  /\ listeners # {}
  /\ LET flip(t) == IF t = "dark" THEN "light" ELSE "dark"
         newTheme == IF Cardinality(listeners) % 2 = 1 THEN flip(theme) ELSE flip(flip(theme))
     IN /\ applyTheme(newTheme)
        /\ updateGitIcons(newTheme)
  /\ userChose' = TRUE
  /\ UNCHANGED systemDark
  /\ ThemeFrame
  /\ lastOp' = Op("toggleClick", "")

Next ==
  \/ DOMContentLoaded
  \/ \E call \in SetupCalls : AttemptSetup(call)
  \/ Reinitialize
  \/ MountToggle
  \/ ToggleClick
  \/ \E page \in PageNames : NavigateTo(page)
  \/ \E d \in {-1, 1} : PopState(d)
  \/ \E outcome \in FetchOutcomes : FetchComplete(outcome)
  \/ \E tag \in TagArgs : ToggleTag(tag)
  \/ \E tag \in AddTagArgs : AddTag(tag)
  \/ \E query \in SearchInputs : UpdateSearchQuery(query)
  \/ ClearAllFilters
  \/ \E value \in AddTagArgs : SelectOption(value)
  \/ ToggleTheme
  \/ \E t \in ThemeArgs : SetTheme(t)
  \/ \E matches \in BOOLEAN : SystemThemeChange(matches)
  \/ ClearStorage

Spec == Init /\ [][Next]_vars

\* ------------------------------------------------------------ properties
\* C1: the network fetch of the catalog is issued at most once per page
\* lifetime, in every interleaving of navigation with the pending fetch.
C1_FetchAtMostOnce == fetchCount <= 1

\* C2: Router.currentPage is always one of the four route names, and a
\* startup or popstate with an unknown or empty fragment yields home.
C2_CurrentPageIsRoute ==
  /\ currentPage \in Routes
  /\ (lastOp.op \in {"DOMContentLoaded", "popstate"} /\ lastOp.arg \notin Routes)
       => currentPage = "home"

\* C3: navigateTo(name) with a name that is not one of the four routes
\* changes neither currentPage, the session history, the fragment, the
\* active navigation link nor the content container.
C3_UnknownRouteNoOp ==
  [][\A name \in PageNames \ Routes :
        NavigateTo(name) => UNCHANGED <<currentPage, hist, histIdx, activeNav, domVars>>]_vars

\* C4: while a theme is stored under "theme", a change event of the system
\* dark-mode query leaves ThemeManager.theme, the root data-theme attribute
\* and the stored value as they were; once the page runs, a step that changes
\* the applied theme while one is stored is a toggleTheme or a setTheme.
C4_PersistedThemeOverridesSystem ==
  [][/\ ((\E matches \in BOOLEAN : SystemThemeChange(matches)) /\ Truthy(storedTheme))
          => UNCHANGED <<theme, dataTheme, storedTheme>>
     /\ (pc = "run" /\ Truthy(storedTheme) /\ <<theme, dataTheme>>' # <<theme, dataTheme>>)
          => (ToggleTheme \/ \E t \in ThemeArgs : SetTheme(t))]_vars

\* C4 witness: the system switched to dark while "light" was stored, and the
\* light theme is still applied.
C4_Witness ==
  /\ lastOp = Op("systemThemeChange", "dark")
  /\ systemDark
  /\ storedTheme = "light"
  /\ theme = "light"
  /\ dataTheme = "light"

\* C5: the page was opened with empty storage and the user has made no
\* explicit choice; then after a system change event the applied theme is
\* the system's new preference.
C5_SystemChangeFollowed ==
  (savedAtStart = NULL /\ ~userChose /\ lastOp.op = "systemThemeChange")
    => (theme = lastOp.arg /\ dataTheme = lastOp.arg)

\* C6: after construction the theme is the stored theme when one is present
\* (a non-empty stored string), whatever the system preference; otherwise it
\* is dark when the system query matches and light when it does not.
C6_InitialThemePrecedence ==
  lastOp.op = "DOMContentLoaded" =>
    /\ savedAtStart \notin {NULL, ""} => theme = savedAtStart
    /\ (savedAtStart \in {NULL, ""} /\ systemDark) => theme = "dark"
    /\ (savedAtStart \in {NULL, ""} /\ ~systemDark) => theme = "light"

\* C6 witness: opened with "dark" stored and a light system preference.
C6_Witness ==
  /\ lastOp.op = "DOMContentLoaded"
  /\ savedAtStart = "dark"
  /\ ~systemDark
  /\ theme = "dark"

\* the tools of the catalog that pass the tag-AND test and the search test
Visible(tool) ==
  /\ \A t \in selectedTags : t \in {tool.tags[j] : j \in 1..Len(tool.tags)}
  /\ searchQuery # <<>> =>
        \/ includes(toLowerCase(tool.name), searchQuery)
        \/ includes(toLowerCase(tool.description), searchQuery)

\* C7: filteredTools is the subsequence of the catalog, in catalog order, of
\* the tools that carry every selected tag and, when the search text is not
\* empty, contain it in the lowercased name or description; with no filter
\* it is the whole catalog.
C7_FilteredIsFilterOfCatalog ==
  LET keep == {i \in 1..Len(TOOLS_DATA) : Visible(TOOLS_DATA[i])}
  IN /\ Len(filteredTools) = Cardinality(keep)
     /\ \A i \in keep :
          filteredTools[Cardinality({j \in keep : j <= i})] = TOOLS_DATA[i]
     /\ (selectedTags = {} /\ searchQuery = <<>>) => filteredTools = TOOLS_DATA

\* C8: clearAllFilters leaves no selected tag, an empty search text and the
\* whole catalog, in its order, as filteredTools.
C8_ClearAllYieldsFullCatalog ==
  lastOp.op = "clearAllFilters" =>
    /\ selectedTags = {}
    /\ searchQuery = <<>>
    /\ filteredTools = TOOLS_DATA
    /\ TOOLS_DATA # <<>> =>
                   [i \in 1..Len(filteredTools) |-> filteredTools[i].name]
                     = [i \in 1..Len(serverData) |-> serverData[i].name]

\* C8 witness: clearAllFilters ran on the displayed tools page of a loaded,
\* non-empty catalog.
C8_Witness ==
  /\ lastOp.op = "clearAllFilters"
  /\ isLoaded
  /\ Len(TOOLS_DATA) = 3
  /\ pageContent = "tools"
  /\ domGrid = TOOLS_DATA

\* C9: toggleTag(tag) adds an absent tag and removes a present one, and two
\* consecutive toggleTag(tag) calls give back the selectedTags and the
\* filteredTools they started from.
C9_ToggleTwiceRestores ==
  toolsFilter =>
    \A tag \in TagArgs :
      LET once == toggleTagResult(selectedTags, tag)
          twice == toggleTagResult(once, tag)
      IN /\ (tag \in once) <=> (tag \notin selectedTags)
         /\ twice = selectedTags
         /\ updateFilteredToolsResult(TOOLS_DATA, twice, searchQuery) = filteredTools

\* C10: when a catalog fetch fails, the catalog is empty and the tools page
\* is rendered with "Showing 0 of 0 items" and no card.
C10_FailedLoadRendersEmpty ==
  (lastOp.op = "fetchComplete" /\ lastOp.arg # "ok") =>
    /\ TOOLS_DATA = <<>>
    /\ filteredTools = <<>>
    /\ isLoaded
    /\ pageContent = "tools"
    /\ domCount = <<0, 0>>
    /\ domGrid = <<>>

\* C10 witness: a fetch ended with a transport error and the tools page is
\* displayed with the count 0 of 0.
C10_Witness ==
  /\ lastOp = Op("fetchComplete", "transport")
  /\ pageContent = "tools"
  /\ domCount = <<0, 0>>

\* C11: while the tools page is displayed the clear-all button is displayed
\* only when a tag is selected or the search text is not empty.
C11_ClearAllOnlyWhenFiltered ==
  (pageContent = "tools" /\ domClearBtn) =>
    (selectedTags # {} \/ searchQuery # <<>>)

\* C12: while the tools page is displayed no selected tag is among the
\* options of the tag dropdown.
C12_DropdownListsUnselected ==
  pageContent = "tools" =>
    \A i \in 1..Len(domOptions) : domOptions[i] \notin selectedTags

\* C13: while #theme-toggle is not mounted, one call of setupToggle looks
\* the element up at most 5 times, and after the fifth lookup it has given
\* up: no further attempt is scheduled.
C13_AtMostFiveLookups ==
  ~toggleEl =>
    \A call \in SetupCalls :
      /\ lookups[call] <= 5
      /\ lookups[call] = 5 => ~\E tm \in timers : tm.call = call

\* C14: every selected tag is one of the catalog's tags (allTags).
C14_SelectedTagsInUniverse ==
  \A tag \in selectedTags : \E i \in 1..Len(allTags) : allTags[i] = tag

\* C15: the category of every catalog entry is the label of the first rule,
\* in the order vpn, messaging|chat, password-manager, email, storage|cloud,
\* browser, os, search-engine, adblock|tracker-blocker, email-alias, one of
\* whose tags is in the set of the record's tags (whatever their order in the
\* record), and "Privacy & Security" when no rule has one.
C15_CategoryIsFirstMatchingRule ==
  LET rules == << [tags |-> {"vpn"}, label |-> "VPN & Networking"],
                  [tags |-> {"messaging", "chat"}, label |-> "Communication"],
                  [tags |-> {"password-manager"}, label |-> "Password Management"],
                  [tags |-> {"email"}, label |-> "Email"],
                  [tags |-> {"storage", "cloud"}, label |-> "Storage & Sync"],
                  [tags |-> {"browser"}, label |-> "Browsers"],
                  [tags |-> {"os"}, label |-> "Operating Systems"],
                  [tags |-> {"search-engine"}, label |-> "Search"],
                  [tags |-> {"adblock", "tracker-blocker"}, label |-> "Browser Extensions"],
                  [tags |-> {"email-alias"}, label |-> "Email Privacy"] >>
      TagSet(tool) == {tool.tags[j] : j \in 1..Len(tool.tags)}
      Matching(tool) == {r \in 1..Len(rules) : rules[r].tags \cap TagSet(tool) # {}}
      First(tool) == CHOOSE r \in Matching(tool) : \A q \in Matching(tool) : r <= q
  IN \A i \in 1..Len(TOOLS_DATA) :
       TOOLS_DATA[i].category = IF Matching(TOOLS_DATA[i]) = {}
                                THEN "Privacy & Security"
                                ELSE rules[First(TOOLS_DATA[i])].label

\* a record listing chat before vpn has been loaded and is filed under VPN
C15_Witness ==
  \E i \in 1..Len(TOOLS_DATA) : /\ TOOLS_DATA[i].tags = <<"chat", "vpn">>
                                 /\ TOOLS_DATA[i].category = "VPN & Networking"

\* C16: applyTheme is idempotent: a call applyTheme(t), t light or dark, made
\* right after a call applyTheme(t) leaves the in-memory theme, the root
\* data-theme attribute, the stored theme, the toggle glyph and the
\* repository icons of the displayed cards as the first call left them.
C16_ApplyThemeIdempotent ==
  [][\A t \in {"light", "dark"} :
       (lastOp = Op("setTheme", t) /\ SetTheme(t))
         => UNCHANGED <<theme, dataTheme, storedTheme, toggleGlyph, domIcons>>]_vars

\* applyTheme("dark") has run (a second call starts and ends in this state)
\* with the toggle mounted and the tools page showing repository icons
C16_Witness ==
  /\ lastOp = Op("setTheme", "dark")
  /\ theme = "dark" /\ dataTheme = "dark" /\ storedTheme = "dark"
  /\ toggleGlyph = "sun"
  /\ pageContent = "tools"
  /\ domIcons = <<"github-white.png", "gitlab-white.png">>

\* C17: at startup the Router takes its route from the URL fragment: with a
\* fragment that names one of the four routes that route becomes current and
\* is rendered (the tools page once its catalog fetch has ended) and no
\* history entry is pushed; with an empty fragment home becomes current.
C17_StartupResolvesFragment ==
  [][/\ DOMContentLoaded =>
          /\ hash \in Routes =>
                /\ currentPage' = hash
                /\ hist' = hist /\ histIdx' = histIdx
                /\ IF hash = "tools" THEN pending' = 1 ELSE pageContent' = hash
          /\ hash = "" =>
                /\ currentPage' = "home" /\ pageContent' = "home"
                /\ hist' = hist /\ histIdx' = histIdx
     /\ (lastOp = Op("DOMContentLoaded", "tools") /\ \E o \in FetchOutcomes : FetchComplete(o))
          => pageContent' = "tools" /\ currentPage' = "tools" /\ hist' = <<"tools">>
    ]_vars

\* the page was opened at #projects and start-up has just ended
C17_Witness ==
  /\ lastOp = Op("DOMContentLoaded", "projects")
  /\ currentPage = "projects"
  /\ pageContent = "projects"
  /\ hist = <<"projects">>

\* C18: once no fetch is pending, the content container shows the page of
\* currentPage: a fetch that ends after the user left the tools page does
\* not replace the content.
C18_ContentIsCurrentPage ==
  (pc = "run" /\ pending = 0)
    => pageContent = (IF currentPage \in Routes THEN currentPage ELSE "[object Object]")

\* C19: handleRoute (at startup and on popstate) pushes no history entry when
\* the fragment is empty or names one of the four routes, and for any other
\* fragment it ends with home as the current page, the fragment, the active
\* link and the content.
C19_HandleRouteFrame ==
  [][(lastOp'.op \in {"DOMContentLoaded", "popstate"} /\ (DOMContentLoaded \/ \E d \in {-1, 1} : PopState(d)))
       => LET fragment == lastOp'.arg
          IN /\ (fragment = "" \/ fragment \in Routes) => hist' = hist
             /\ (fragment # "" /\ fragment \notin Routes) =>
                   /\ currentPage' = "home"
                   /\ hash' = "home"
                   /\ activeNav' = "home"
                   /\ pageContent' = "home"
    ]_vars

\* C20: after every navigateTo and handleRoute, currentPage is the page the
\* URL fragment names (home for the empty fragment) and the active
\* navigation link is the one of currentPage and no other; a navigateTo to a
\* page of the route table pushes exactly one history entry, whose fragment
\* is that page, also when that page is already current.
C20_CurrentPageMatchesFragment ==
  [][/\ (DOMContentLoaded \/ (\E page \in PageNames : NavigateTo(page)) \/ (\E d \in {-1, 1} : PopState(d)))
          => /\ currentPage' = (IF hash' = "" THEN "home" ELSE hash')
             /\ activeNav' = (IF currentPage' \in NavLinkPages THEN currentPage' ELSE NULL)
     /\ \A page \in Routes :
          (lastOp'= Op("navigateTo", page) /\ NavigateTo(page))
            => /\ histIdx' = histIdx + 1
               /\ Len(hist') = histIdx + 1
               /\ hist'[histIdx'] = page
               /\ SubSeq(hist', 1, histIdx) = SubSeq(hist, 1, histIdx)
    ]_vars

\* navigateTo("tools") has run while tools was the current page
C20_Witness ==
  /\ lastOp = Op("navigateTo", "tools")
  /\ histIdx >= 2
  /\ hist[histIdx - 1] = "tools" /\ hist[histIdx] = "tools"
  /\ currentPage = "tools" /\ activeNav = "tools"

\* C21: addTag(tag) with an empty tag or a tag already selected changes
\* neither selectedTags, searchQuery, filteredTools, the rendered list nor
\* the value of the tag dropdown; with a non-empty unselected tag it adds
\* exactly that tag, filteredTools becomes the catalog entries that carry
\* every selected tag and match the search text, the displayed tools page
\* lists them, and the dropdown is back at its empty value.
C21_AddTagEffect ==
  [][\A tag \in AddTagArgs :
       (lastOp' = Op("addTag", tag) /\ AddTag(tag))
         => IF tag = "" \/ tag \in selectedTags
            THEN UNCHANGED <<selectedTags, searchQuery, filteredTools, domGrid, domDropdown>>
            ELSE LET Shown(tool) ==
                       /\ \A t \in selectedTags \cup {tag} : arrayIncludes(tool.tags, t)
                       /\ \/ includes(toLowerCase(tool.name), searchQuery)
                          \/ includes(toLowerCase(tool.description), searchQuery)
                 IN /\ selectedTags' = selectedTags \cup {tag}
                    /\ searchQuery' = searchQuery
                    /\ filteredTools' = SelectSeq(TOOLS_DATA, Shown)
                    /\ pageContent = "tools" => domGrid' = filteredTools'
                    /\ domDropdown' = ""]_vars

\* addTag("vpn") has run on the displayed, loaded tools page
C21_Witness ==
  /\ lastOp = Op("addTag", "vpn")
  /\ selectedTags = {"vpn"}
  /\ pageContent = "tools" /\ isLoaded
  /\ Len(filteredTools) = 2 /\ domGrid = filteredTools
  /\ domDropdown = ""

\* C22: when a filter operation (toggleTag, addTag, updateSearchQuery,
\* clearAllFilters) has run with the tools page displayed, the item count
\* reads "Showing X of Y items" with X the number of cards in the displayed
\* list, which is the current filteredTools, and Y the size of the catalog.
C22_ItemCountMatchesList ==
  (lastOp.op \in {"toggleTag", "addTag", "updateSearchQuery", "clearAllFilters"}
     /\ pageContent = "tools")
    => /\ domGrid = filteredTools
       /\ domCount = <<Len(domGrid), Len(TOOLS_DATA)>>

\* toggleTag("vpn") has narrowed the displayed, loaded catalog to 2 of 3
C22_Witness ==
  /\ lastOp = Op("toggleTag", "vpn")
  /\ pageContent = "tools"
  /\ Len(TOOLS_DATA) = 3 /\ Len(domGrid) = 2
  /\ domCount = <<2, 3>>

\* C23: when the theme has been changed (toggle or setTheme) with the tools
\* page displayed, every displayed repository icon is the one of its link's
\* host in the variant of the current data-theme: github or gitlab, white
\* under dark, and the generic icon, which has one variant, for other hosts;
\* that is, what getGitIcon returns for the link under the current theme.
C23_IconsFollowTheme ==
  (lastOp.op \in {"toggleTheme", "setTheme"} /\ pageContent = "tools")
    => LET HasGit(tool) == tool.url_git # <<>>
           links == SelectSeq(domGrid, HasGit)
           dark == dataTheme = "dark"
           Expected(url) ==
             IF \E k \in 1..Len(url) : url[k] = "github.com"
             THEN (IF dark THEN "github-white.png" ELSE "github.png")
             ELSE IF \E k \in 1..Len(url) : url[k] \in {"gitlab", "gitlab.com"}
             THEN (IF dark THEN "gitlab-white.png" ELSE "gitlab.png")
             ELSE "git.png"
       IN /\ Len(domIcons) = Len(links)
          /\ \A i \in 1..Len(links) :
               /\ domIcons[i] = Expected(links[i].url_git)
               /\ domIcons[i] = getGitIcon(links[i].url_git, dataTheme)

\* the toggle has switched the displayed tools page to dark: one link of
\* each kind
C23_Witness ==
  /\ lastOp = Op("toggleTheme", "")
  /\ pageContent = "tools"
  /\ dataTheme = "dark"
  /\ domIcons = <<"github-white.png", "gitlab-white.png", "git.png">>

\* C24: when storage held no theme, "light" or "dark" as the page was opened,
\* then after the ThemeManager is constructed and through every toggle
\* click, setTheme call and system change event, the in-memory theme, the
\* root data-theme attribute and the stored theme are equal and are light or
\* dark; and toggleTheme turns light into dark and dark into light, so that
\* two toggles restore the theme.
C24_ThemeTripleConsistent ==
  /\ []((pc = "run" /\ savedAtStart \in {NULL, "light", "dark"})
          => /\ theme \in {"light", "dark"}
             /\ dataTheme = theme
             /\ storedTheme = theme)
  /\ [][(savedAtStart \in {NULL, "light", "dark"} /\ ToggleTheme)
          => theme' = (IF theme = "light" THEN "dark" ELSE "light")]_vars

\* the toggle has been clicked on a page opened with empty storage
C24_Witness ==
  /\ lastOp = Op("toggleTheme", "")
  /\ savedAtStart = NULL
  /\ theme = "dark" /\ dataTheme = "dark" /\ storedTheme = "dark"

\* C25: at every moment at most one click listener of the ThemeManager is
\* attached to #theme-toggle, whatever the order in which the timer callbacks
\* of the first setupToggle chain and of reinitialize() run, and one click on
\* the toggle flips the theme exactly once.
C25_AtMostOneListener ==
  /\ [](Cardinality(listeners) <= 1)
  /\ [][ToggleClick => theme' = (IF theme = "dark" THEN "light" ELSE "dark")]_vars

\* both setupToggle calls have attached a listener, the toggle carries the
\* second one only, and it has been clicked
C25_Witness ==
  /\ lastOp = Op("toggleClick", "")
  /\ handleToggleClick = 2
  /\ listeners = {2}
  /\ lookups["init"] >= 1 /\ lookups["reinit"] >= 1

\* C26: the filter state outlives navigation: a navigation leaves
\* selectedTags and searchQuery as they were, and a return to the tools page
\* after it was left issues no further fetch and shows the tools page with
\* the list and item count of the catalog entries that pass the retained
\* filter, the retained selected tags, and the catalog's unselected tags as
\* dropdown options.
C26_FilterStateOutlivesNavigation ==
  [][lastOp'.op = "navigateTo"
       => /\ selectedTags' = selectedTags
          /\ searchQuery' = searchQuery
          /\ (lastOp'.arg = "tools" /\ toolsFilter /\ currentPage # "tools")
               => LET Passes(tool) ==
                        /\ \A t \in selectedTags : arrayIncludes(tool.tags, t)
                        /\ \/ includes(toLowerCase(tool.name), searchQuery)
                           \/ includes(toLowerCase(tool.description), searchQuery)
                      Unselected(t) == t \notin selectedTags
                  IN /\ fetchCount' = fetchCount
                     /\ pageContent' = "tools"
                     /\ domGrid' = SelectSeq(TOOLS_DATA, Passes)
                     /\ domCount' = <<Len(domGrid'), Len(TOOLS_DATA)>>
                     /\ domChips' = selectedTags
                     /\ domOptions' = SelectSeq(extractAllTags(TOOLS_DATA), Unselected)
    ]_vars

\* ------------------------------------------------- component behaviours
\* The theme handlers alone, for every stored theme and system preference.
InitTheme == Init /\ hist = <<"">> /\ serverData = <<RawA, RawB, RawC>> /\ toggleEl

NextTheme ==
  \/ DOMContentLoaded
  \/ ToggleTheme
  \/ \E t \in ThemeArgs : SetTheme(t)
  \/ \E matches \in BOOLEAN : SystemThemeChange(matches)
  \/ ClearStorage

SpecTheme == InitTheme /\ [][NextTheme]_vars

\* Navigation and the catalog fetch, for every fragment and page name.
InitRouter ==
  Init /\ storedTheme = NULL /\ systemDark = FALSE /\ serverData = <<RawA, RawB, RawC>> /\ toggleEl

NextRouter ==
  \/ DOMContentLoaded
  \/ \E page \in PageNames : NavigateTo(page)
  \/ \E d \in {-1, 1} : PopState(d)
  \/ \E outcome \in FetchOutcomes : FetchComplete(outcome)

SpecRouter == InitRouter /\ [][NextRouter]_vars

\* The filter operations with the navigation that displays the tools page
\* and the catalog fetch, for every catalog.
InitFilter ==
  Init /\ storedTheme = NULL /\ systemDark = FALSE /\ hist \in {<<"">>, <<"tools">>}
       /\ serverData \in Catalogs /\ toggleEl

NextFilter ==
  \/ DOMContentLoaded
  \/ \E page \in {"home", "tools"} : NavigateTo(page)
  \/ \E outcome \in FetchOutcomes : FetchComplete(outcome)
  \/ \E tag \in TagArgs : ToggleTag(tag)
  \/ \E tag \in AddTagArgs : AddTag(tag)
  \/ \E query \in SearchInputs : UpdateSearchQuery(query)
  \/ ClearAllFilters

SpecFilter == InitFilter /\ [][NextFilter]_vars

\* The set-up of the theme toggle: the retry chains of setupToggle, the
\* reinitialize timer, a late mount of the element, and clicks.
InitToggle ==
  Init /\ storedTheme = NULL /\ hist = <<"">> /\ serverData = <<RawA, RawB, RawC>>

NextToggle ==
  \/ DOMContentLoaded
  \/ \E call \in SetupCalls : AttemptSetup(call)
  \/ Reinitialize
  \/ MountToggle
  \/ ToggleClick

SpecToggle == InitToggle /\ [][NextToggle]_vars

\* The catalog load alone, for every record of at most two tags.
InitCategory ==
  Init /\ storedTheme = NULL /\ systemDark = FALSE /\ hist = <<"tools">>
       /\ serverData \in CategoryCatalogs /\ toggleEl

NextCategory ==
  \/ DOMContentLoaded
  \/ \E outcome \in FetchOutcomes : FetchComplete(outcome)

SpecCategory == InitCategory /\ [][NextCategory]_vars

\* The theme handlers over a displayed tools page.
InitIcons ==
  Init /\ hist = <<"tools">> /\ serverData \in {<<RawA, RawB, RawC>>, IconCatalog} /\ toggleEl

NextIcons ==
  \/ DOMContentLoaded
  \/ \E outcome \in FetchOutcomes : FetchComplete(outcome)
  \/ ToggleTheme
  \/ \E t \in ThemeArgs : SetTheme(t)

SpecIcons == InitIcons /\ [][NextIcons]_vars

\* The tag dropdown of the displayed tools page and addTag.
InitDropdown ==
  Init /\ storedTheme = NULL /\ systemDark = FALSE /\ hist = <<"tools">>
       /\ serverData = <<RawA, RawB, RawC>> /\ toggleEl

NextDropdown ==
  \/ DOMContentLoaded
  \/ \E outcome \in FetchOutcomes : FetchComplete(outcome)
  \/ \E value \in AddTagArgs : SelectOption(value)
  \/ \E tag \in AddTagArgs : AddTag(tag)
  \/ \E query \in SearchInputs : UpdateSearchQuery(query)

SpecDropdown == InitDropdown /\ [][NextDropdown]_vars

\* The theme handlers without any outside change of the storage.
NextThemeOps ==
  \/ DOMContentLoaded
  \/ ToggleTheme
  \/ \E t \in ThemeArgs : SetTheme(t)
  \/ \E matches \in BOOLEAN : SystemThemeChange(matches)

SpecThemeOps == InitTheme /\ [][NextThemeOps]_vars

\* The set-up of the theme toggle with its timers in any order.
NextToggleAnyOrder ==
  \/ DOMContentLoaded
  \/ \E call \in SetupCalls : AttemptSetupAnyOrder(call)
  \/ ReinitializeAnyOrder
  \/ MountToggle
  \/ ToggleClick

SpecToggleAnyOrder == InitToggle /\ [][NextToggleAnyOrder]_vars

====
